---------------------------- MODULE Spec2Model ----------------------------
(***************************************************************************)
(* Model of the Alkoteka spider                                            *)
(* (src/alkoteka_parser/alkoteka_parser/spiders/alkoteka_parser.py):       *)
(* the two API URL builders, the ProductParser field extractors, and the   *)
(* AlkotekaDetailSpider callbacks driven by the crawl engine.              *)
(*                                                                         *)
(* Python values are tagged records; a dict is a TLA+ function from its    *)
(* keys, so "key absent" and "key present with null" are different inputs, *)
(* as they are for dict.get.  A Python call either returns a value or      *)
(* raises: Ok(v) / Raise(e).                                               *)
(***************************************************************************)
EXTENDS Integers, Sequences, FiniteSets, TLC

VARIABLES
    started,     \* start_requests has been consumed by the engine
    scheduled,   \* requests submitted to the engine and not yet answered
    items,       \* the feed: records yielded by parse_product_detail, in order
    log,         \* ids of the requests whose callback called logger.error
    submitted,   \* every request ever submitted to the engine
    issued,      \* per category slug, the pages requested so far, in order
    answers,     \* per category slug, what each list page answered, in order
    handled,     \* how many times a callback has run on each request
    last,        \* the last callback run: its response and what it produced
    product,     \* the raw product object handed to a ProductParser extractor
    result       \* what the extractor last applied to it returned

crawlVars == <<started, scheduled, items, log, submitted, issued, answers, handled, last>>
parserVars == <<product, result>>
vars == <<started, scheduled, items, log, submitted, issued, answers, handled, last,
          product, result>>

-----------------------------------------------------------------------------
(* Bounds of the model *)

NumCategories == 2      \* categories configured in START_URLS
MaxPage == 2            \* the server reports has_more_pages only below this page
MaxItems == 2           \* items in one list page
MaxDetail == 2          \* detail requests spawned in one crawl
MaxTime == 0            \* wall-clock readings 0..MaxTime
MaxPrice == 5           \* integer prices 0..MaxPrice
MaxList == 2            \* filter labels, description blocks in one product

-----------------------------------------------------------------------------
(* Python values *)

None == [t |-> "none"]
Str(s) == [t |-> "str", s |-> s]
Num(i) == [t |-> "num", i |-> i]
Bool(b) == [t |-> "bool", b |-> b]
List(l) == [t |-> "list", l |-> l]
Dict(d) == [t |-> "dict", d |-> d]
EmptyDict == Dict(<<>>)

Ok(v) == [ok |-> TRUE, val |-> v]
Raise(e) == [ok |-> FALSE, exc |-> e]

\* bool(v)
Truthy(v) ==
    CASE v.t = "none" -> FALSE
      [] v.t = "str" -> v.s /= ""
      [] v.t = "num" -> v.i /= 0
      [] v.t = "bool" -> v.b
      [] v.t = "list" -> v.l /= <<>>
      [] v.t = "dict" -> DOMAIN v.d /= {}

\* v.get(k, default): only a dict has .get
Get(v, k, default) ==
    IF v.t /= "dict" THEN Raise("AttributeError")
    ELSE IF k \in DOMAIN v.d THEN Ok(v.d[k]) ELSE Ok(default)

\* A dict with the given keys; absent keys are simply not in the function.
DictOf(keys, f) == Dict([k \in keys |-> f[k]])

-----------------------------------------------------------------------------
(* BaseAPIBuilder and its two builders *)

CITY_UUID == "4a70f9e0-46ae-11e7-83ff-00155d026416"
BASE_API_URL == "https://alkoteka.com/web-api/v1"

ProductListAPIBuilder_build_url(category_slug, page, per_page) ==
    BASE_API_URL \o "/product?city_uuid=" \o CITY_UUID
        \o "&page=" \o ToString(page)
        \o "&per_page=" \o ToString(per_page)
        \o "&root_category_slug=" \o category_slug

ProductDetailAPIBuilder_build_url(slug) ==
    BASE_API_URL \o "/product/" \o slug \o "?city_uuid=" \o CITY_UUID

-----------------------------------------------------------------------------
(***************************************************************************)
(* Python float: IEEE-754 binary64, round to nearest, ties to even.        *)
(* A non-negative float is held exactly as its binary expansion: an        *)
(* integer part and the sequence of its fractional bits (frac[k] weighs    *)
(* 2^-k).  Every operation computes the exact result and rounds it to      *)
(* Precision significant bits, as the hardware does.                       *)
(***************************************************************************)

Precision == 53

Float(i, f) == [int |-> i, frac |-> f]
FromInt(n) == Float(n, <<>>)

RECURSIVE BitLen(_)
BitLen(n) == IF n = 0 THEN 0 ELSE 1 + BitLen(n \div 2)

Zeros(n) == [k \in 1..n |-> 0]

\* Index of the first 1 of a bit sequence, 0 when there is none.
Lead(f) ==
    IF \E k \in 1..Len(f) : f[k] = 1
    THEN CHOOSE k \in 1..Len(f) : f[k] = 1 /\ \A j \in 1..(k - 1) : f[j] = 0
    ELSE 0

\* Index of the last 1 of a bit sequence, 0 when there is none.
LastOne(f) ==
    IF \E k \in 1..Len(f) : f[k] = 1
    THEN CHOOSE k \in 1..Len(f) : f[k] = 1 /\ \A j \in (k + 1)..Len(f) : f[j] = 0
    ELSE 0

\* One unit in the last place of f added to int.f.
Incr(i, f) ==
    IF \E k \in 1..Len(f) : f[k] = 0
    THEN LET j == CHOOSE k \in 1..Len(f) : f[k] = 0 /\ \A m \in (k + 1)..Len(f) : f[m] = 1
         IN Float(i, [k \in 1..Len(f) |-> IF k < j THEN f[k] ELSE IF k = j THEN 1 ELSE 0])
    ELSE Float(i + 1, Zeros(Len(f)))

\* The exact value int.f (plus something below its last bit when sticky)
\* rounded to Precision significant bits.
Round(i, f, sticky) ==
    LET keep == IF i > 0 THEN Precision - BitLen(i) ELSE Lead(f) + Precision - 1
    IN IF (i = 0 /\ Lead(f) = 0) \/ Len(f) <= keep THEN Float(i, f)
       ELSE LET kept == SubSeq(f, 1, keep)
                half == f[keep + 1] = 1
                rest == sticky \/ \E j \in (keep + 2)..Len(f) : f[j] = 1
                odd == IF keep = 0 THEN i % 2 = 1 ELSE f[keep] = 1
            IN IF half /\ (rest \/ odd) THEN Incr(i, kept) ELSE Float(i, kept)

\* n more fractional bits of r / o (r < o) by long division, appended to acc,
\* and the remainder left.
RECURSIVE DivBits(_, _, _, _)
DivBits(r, o, n, acc) ==
    IF n = 0 THEN [bits |-> acc, rem |-> r]
    ELSE DivBits((2 * r) % o, o, n - 1, Append(acc, (2 * r) \div o))

\* c / o for floats holding the integers c >= 0 and o > 0
FloatDiv(c, o) ==
    LET d == DivBits(c % o, o, Precision + 1 + BitLen(o), <<>>)
    IN Round(c \div o, d.bits, d.rem /= 0)

\* 1 - q for a float 0 <= q <= 1
OneMinus(q) ==
    IF q.int >= 1 THEN FromInt(0)
    ELSE IF LastOne(q.frac) = 0 THEN FromInt(1)
    ELSE LET j == LastOne(q.frac)
             f == [k \in 1..Len(q.frac) |->
                     IF k < j THEN 1 - q.frac[k] ELSE IF k = j THEN 1 ELSE 0]
         IN Round(0, f, FALSE)

\* the fractional bits of f * n, from bit k down to the first, and the carry
\* into the integer part
RECURSIVE MulBits(_, _, _, _, _)
MulBits(f, n, k, carry, acc) ==
    IF k = 0 THEN [bits |-> acc, carry |-> carry]
    ELSE MulBits(f, n, k - 1, (f[k] * n + carry) \div 2,
                 <<(f[k] * n + carry) % 2>> \o acc)

\* x * n for a float x and a float holding the small integer n
FloatMul(x, n) ==
    LET m == MulBits(x.frac, n, Len(x.frac), 0, <<>>)
    IN Round(x.int * n + m.carry, m.bits, FALSE)

\* int(x): truncation toward zero
Trunc(x) == x.int

-----------------------------------------------------------------------------
(* Python built-ins the extractors use *)

\* for x in v: the elements of a list; None and numbers are not iterable
Iter(v) ==
    CASE v.t = "list" -> Ok(v.l)
      [] v.t \in {"none", "num", "bool"} -> Raise("TypeError")

\* v[0] for a truthy v: the first element of a list; a dict has no key 0
Index0(v) ==
    CASE v.t = "list" -> Ok(v.l[1])
      [] v.t = "dict" -> Raise("KeyError")
      [] v.t \in {"num", "bool"} -> Raise("TypeError")

\* The number a numeric string spells (decimal integers within the price range);
\* -1 for a string that spells none.
ParseNumber(s) ==
    IF \E n \in 0..MaxPrice : ToString(n) = s
    THEN CHOOSE n \in 0..MaxPrice : ToString(n) = s
    ELSE -1

\* float(v) and int(v), for v not None and values that are whole numbers
ToNumber(v) ==
    CASE v.t = "num" -> Ok(v.i)
      [] v.t = "bool" -> Ok(IF v.b THEN 1 ELSE 0)
      [] v.t = "str" -> IF ParseNumber(v.s) >= 0 THEN Ok(ParseNumber(v.s))
                        ELSE Raise("ValueError")
      [] v.t \in {"none", "list", "dict"} -> Raise("TypeError")

\* f"{v}" for the values a title carries
Format(v) ==
    CASE v.t = "str" -> v.s
      [] v.t = "num" -> ToString(v.i)

-----------------------------------------------------------------------------
(* ProductParser *)

TAG_NEW == "Novinka"                  \* the source's literal is in Cyrillic
TAG_GIFT == "Podarochnaya upakovka"   \* the source's literal is in Cyrillic
SALE_WORD == "Skidka "                \* the source's literal is in Cyrillic

\* the loop of build_title over filter_labels[k..]
RECURSIVE TitleLoop(_, _, _)
TitleLoop(name, labels, k) ==
    IF k > Len(labels) THEN Ok(name)
    ELSE LET title == Get(labels[k], "title", None)
         IN IF ~title.ok THEN title
            ELSE IF ~Truthy(title.val) THEN TitleLoop(name, labels, k + 1)
            ELSE IF name.t /= "str" THEN Raise("TypeError")
            ELSE TitleLoop(Str(name.s \o ", " \o Format(title.val)), labels, k + 1)

build_title(p) ==
    LET name == Get(p, "name", Str(""))
        filter_labels == Get(p, "filter_labels", List(<<>>))
    IN IF ~name.ok THEN name
       ELSE IF ~Iter(filter_labels.val).ok THEN Iter(filter_labels.val)
       ELSE TitleLoop(name.val, filter_labels.val.l, 1)

get_marketing_tags(p) ==
    LET new == Get(p, "new", None)
        gift == Get(p, "gift_package", None)
    IN IF ~new.ok THEN new
       ELSE Ok(List((IF Truthy(new.val) THEN <<Str(TAG_NEW)>> ELSE <<>>)
                    \o (IF Truthy(gift.val) THEN <<Str(TAG_GIFT)>> ELSE <<>>)))

\* the loop of get_brand over description_blocks[k..]
RECURSIVE BrandLoop(_, _)
BrandLoop(blocks, k) ==
    IF k > Len(blocks) THEN Ok(Str(""))
    ELSE LET code == Get(blocks[k], "code", None)
             values == Get(blocks[k], "values", None)
         IN IF ~code.ok THEN code
            ELSE IF code.val = Str("brend") /\ Truthy(values.val)
            THEN IF ~Index0(values.val).ok THEN Index0(values.val)
                 ELSE Get(Index0(values.val).val, "name", Str(""))
            ELSE BrandLoop(blocks, k + 1)

get_brand(p) ==
    LET description_blocks == Get(p, "description_blocks", List(<<>>))
    IN IF ~description_blocks.ok THEN description_blocks
       ELSE IF ~Iter(description_blocks.val).ok THEN Iter(description_blocks.val)
       ELSE BrandLoop(description_blocks.val.l, 1)

get_section(p) ==
    LET category == Get(p, "category", EmptyDict)
    IN IF ~category.ok THEN category
       ELSE LET parent == Get(category.val, "parent", None)
            IN IF ~parent.ok THEN parent
               ELSE LET parent_name ==
                            IF Truthy(parent.val)
                            THEN Get(Get(category.val, "parent", EmptyDict).val, "name", Str(""))
                            ELSE Ok(Str(""))
                        category_name == Get(category.val, "name", Str(""))
                    IN IF ~parent_name.ok THEN parent_name
                       ELSE Ok(List(<<parent_name.val, category_name.val>>))

\* the discount of get_price_data, for floats holding whole numbers
Discount(current, original) ==
    Trunc(FloatMul(OneMinus(FloatDiv(current, original)), 100))

\* has_discount, as a strict comparison on one side only
HasDiscountOrEqual(original, current) == original >= current /\ current > 0

\* has_discount = original_price_float > current_price_float > 0
HasDiscount(original, current) == original > current /\ current > 0

get_price_data(p) ==
    LET original_price == Get(p, "prev_price", None)
        current_price == Get(p, "price", Num(0))
    IN IF ~original_price.ok THEN original_price
       ELSE LET cur == IF current_price.val.t /= "none"
                       THEN ToNumber(current_price.val) ELSE Ok(0)
                orig == IF original_price.val.t /= "none"
                        THEN ToNumber(original_price.val) ELSE cur
                failed == ~cur.ok \/ ~orig.ok
                current_price_float == IF failed THEN 0 ELSE cur.val
                original_price_float == IF failed THEN 0 ELSE orig.val
                has_discount == HasDiscount(original_price_float, current_price_float)
                sale_tag == IF has_discount
                            THEN SALE_WORD
                                 \o ToString(Discount(current_price_float, original_price_float))
                                 \o "%"
                            ELSE ""
            IN Ok([current |-> current_price_float,
                   original |-> IF has_discount THEN original_price_float
                                ELSE current_price_float,
                   sale_tag |-> sale_tag])

\* the stock block of parse_product
get_stock(p) ==
    LET quantity_total == Get(p, "quantity_total", Num(0))
    IN IF ~quantity_total.ok THEN quantity_total
       ELSE IF ~ToNumber(quantity_total.val).ok THEN ToNumber(quantity_total.val)
       ELSE Ok([in_stock |-> ToNumber(quantity_total.val).val > 0,
                count |-> quantity_total.val])

\* the assets block of parse_product
get_assets(p) ==
    LET image_url == Get(p, "image_url", Str(""))
    IN IF ~image_url.ok THEN image_url
       ELSE Ok([main_image |-> image_url.val, set_images |-> <<>>,
                view360 |-> <<>>, video |-> <<>>])

\* meta_dict[key] = value
SetItem(m, key, value) ==
    [k \in DOMAIN m \cup {key} |-> IF k = key THEN value ELSE m[k]]

\* the loop of get_metadata over filter_labels[k..]
RECURSIVE MetaLoop(_, _, _)
MetaLoop(meta_dict, labels, k) ==
    IF k > Len(labels) THEN Ok(meta_dict)
    ELSE LET filter == Get(labels[k], "filter", Str(""))
             title == Get(labels[k], "title", Str(""))
         IN IF ~filter.ok THEN filter
            ELSE MetaLoop(SetItem(meta_dict, filter.val.s, title.val), labels, k + 1)

get_metadata(p) ==
    LET text_blocks == Get(p, "text_blocks", List(<<>>))
    IN IF ~text_blocks.ok THEN text_blocks
       ELSE LET description ==
                    IF Truthy(text_blocks.val)
                    THEN IF ~Index0(text_blocks.val).ok THEN Index0(text_blocks.val)
                         ELSE Get(Index0(text_blocks.val).val, "content", Str(""))
                    ELSE Ok(Str(""))
                article == Get(p, "vendor_code", None)
                filter_labels == Get(p, "filter_labels", List(<<>>))
            IN IF ~description.ok THEN description
               ELSE IF ~Iter(filter_labels.val).ok THEN Iter(filter_labels.val)
               ELSE LET m0 == SetItem(<<>>, "__description", description.val)
                        m1 == IF Truthy(article.val)
                              THEN SetItem(m0, "article", article.val) ELSE m0
                    IN MetaLoop(m1, filter_labels.val.l, 1)

\* The first failure among the results of a sequence of calls, in call order.
FirstRaise(calls) ==
    calls[CHOOSE k \in 1..Len(calls) : ~calls[k].ok /\ \A j \in 1..(k - 1) : calls[j].ok]

\* parse_product: the ProductData built from a detail document, the canonical
\* URL and the clock reading; the first extractor that raises ends it.
parse_product(product_data, product_url, now) ==
    LET results == Get(product_data, "results", EmptyDict)
    IN IF ~results.ok THEN results
       ELSE LET p == results.val
                uuid == Get(p, "uuid", Str(""))
                calls == <<uuid, build_title(p), get_marketing_tags(p), get_brand(p),
                           get_section(p), get_price_data(p), get_stock(p),
                           get_assets(p), get_metadata(p)>>
            IN IF \E k \in 1..Len(calls) : ~calls[k].ok THEN FirstRaise(calls)
               ELSE Ok([timestamp |-> now,
                        RPC |-> uuid.val,
                        url |-> product_url,
                        title |-> build_title(p).val,
                        marketing_tags |-> get_marketing_tags(p).val,
                        brand |-> get_brand(p).val,
                        section |-> get_section(p).val,
                        price_data |-> get_price_data(p).val,
                        stock |-> get_stock(p).val,
                        assets |-> get_assets(p).val,
                        metadata |-> get_metadata(p).val,
                        variants |-> 1])

-----------------------------------------------------------------------------
(***************************************************************************)
(* AlkotekaDetailSpider.  A Request is [url, callback, meta]; a Response   *)
(* is [url, meta, text], meta being the meta of its request.  A body is    *)
(* [json |-> FALSE] when it is not valid JSON and [json |-> TRUE,          *)
(* data |-> the document] when it is.  A callback run is what the          *)
(* generator yielded before it ended, whether it logged an error, and the  *)
(* exception that ended it ("" when it returned).                          *)
(***************************************************************************)

PER_PAGE == 20

NotJSON == [json |-> FALSE]
JSON(doc) == [json |-> TRUE, data |-> doc]

json_loads(text) == IF text.json THEN Ok(text.data) ELSE Raise("JSONDecodeError")

Request(url, callback, meta) == [url |-> url, callback |-> callback, meta |-> meta]
Response(request, text) == [url |-> request.url, meta |-> request.meta, text |-> text]
Run(out, logged, exc) == [out |-> out, logged |-> logged, exc |-> exc]

\* The three category pages of the source; the last two are commented out there.
CATEGORY_URLS ==
    <<  <<"https:", "", "alkoteka.com", "catalog", "krepkiy-alkogol">>,
        <<"https:", "", "alkoteka.com", "catalog", "slaboalkogolnye-napitki-2">>,
        <<"https:", "", "alkoteka.com", "catalog", "bezalkogolnye-napitki-1">> >>

\* START_URLS, each URL as the segments "/" splits it into
START_URLS == SubSeq(CATEGORY_URLS, 1, NumCategories)

\* category_url.split("/")[-1]
CategorySlug(category_url) == category_url[Len(category_url)]

start_requests ==
    [i \in 1..Len(START_URLS) |->
        Request(ProductListAPIBuilder_build_url(CategorySlug(START_URLS[i]), 1, PER_PAGE),
                "parse_product_list",
                [category_slug |-> CategorySlug(START_URLS[i]), page |-> 1])]

\* if slug or product_url
WantedEither(slug, product_url) == Truthy(slug) \/ Truthy(product_url)

\* if slug and product_url
Wanted(slug, product_url) == Truthy(slug) /\ Truthy(product_url)

\* the loop of parse_product_list over products[k..]: the detail requests
\* yielded, and the exception that cut the loop short
RECURSIVE DetailLoop(_, _, _)
DetailLoop(products, k, acc) ==
    IF k > Len(products) THEN [out |-> acc, exc |-> ""]
    ELSE LET slug == Get(products[k], "slug", None)
             product_url == Get(products[k], "product_url", None)
         IN IF ~slug.ok THEN [out |-> acc, exc |-> slug.exc]
            ELSE IF Wanted(slug.val, product_url.val)
            THEN DetailLoop(products, k + 1,
                     Append(acc, Request(ProductDetailAPIBuilder_build_url(Format(slug.val)),
                                         "parse_product_detail",
                                         [product_url |-> product_url.val])))
            ELSE DetailLoop(products, k + 1, acc)

\* data.get("meta", {}).get("has_more_pages")
HasMorePages(data) ==
    IF ~Get(data, "meta", EmptyDict).ok THEN Get(data, "meta", EmptyDict)
    ELSE Get(Get(data, "meta", EmptyDict).val, "has_more_pages", None)

\* the next list request, with the page of the response kept as it is
SamePageRequest(response) ==
    Request(ProductListAPIBuilder_build_url(response.meta["category_slug"],
                                            response.meta["page"], PER_PAGE),
            "parse_product_list",
            [category_slug |-> response.meta["category_slug"],
             page |-> response.meta["page"]])

NextPageRequest(response) ==
    LET next_page == response.meta["page"] + 1
    IN Request(ProductListAPIBuilder_build_url(response.meta["category_slug"],
                                               next_page, PER_PAGE),
               "parse_product_list",
               [category_slug |-> response.meta["category_slug"], page |-> next_page])

\* the end of parse_product_list with the flag ignored: a next page every time
PaginationAlways(response, data) ==
    [out |-> <<NextPageRequest(response)>>, exc |-> ""]

\* the end of parse_product_list with the flag ignored: never a next page
PaginationNever(response, data) == [out |-> <<>>, exc |-> ""]

\* the end of parse_product_list: the next list request when has_more_pages is truthy
Pagination(response, data) ==
    LET more == HasMorePages(data)
    IN IF ~more.ok THEN [out |-> <<>>, exc |-> more.exc]
       ELSE IF Truthy(more.val) THEN [out |-> <<NextPageRequest(response)>>, exc |-> ""]
       ELSE [out |-> <<>>, exc |-> ""]

\* a list body that is not JSON, answered by asking for the page again
ListDecodeErrorRetry(response) ==
    Run(<<Request(response.url, "parse_product_list", response.meta)>>, TRUE, "")

\* except json.JSONDecodeError in parse_product_list: log and return
ListDecodeError(response) == Run(<<>>, TRUE, "")

parse_product_list(response) ==
    LET data == json_loads(response.text)
    IN IF ~data.ok THEN ListDecodeError(response)
       ELSE LET products == Get(data.val, "results", List(<<>>))
            IN IF ~products.ok THEN Run(<<>>, FALSE, products.exc)
               ELSE IF ~Iter(products.val).ok THEN Run(<<>>, FALSE, Iter(products.val).exc)
               ELSE LET loop == DetailLoop(products.val.l, 1, <<>>)
                        next == Pagination(response, data.val)
                    IN IF loop.exc /= "" THEN Run(loop.out, FALSE, loop.exc)
                       ELSE Run(loop.out \o next.out, FALSE, next.exc)

\* the URL of the response itself, as a Python string
ResponseUrl(response) == Ok(Str(response.url))

\* response.meta["product_url"]
CanonicalUrl(response) ==
    IF "product_url" \in DOMAIN response.meta THEN Ok(response.meta["product_url"])
    ELSE Raise("KeyError")

parse_product_detail(response, now) ==
    LET product_data == json_loads(response.text)
    IN IF ~product_data.ok THEN Run(<<>>, TRUE, "")
       ELSE IF ~CanonicalUrl(response).ok THEN Run(<<>>, TRUE, "")
       ELSE LET parsed == parse_product(product_data.val, CanonicalUrl(response).val, now)
            IN IF parsed.ok THEN Run(<<parsed.val>>, FALSE, "")
               ELSE IF parsed.exc \in {"JSONDecodeError", "KeyError"}
               THEN Run(<<>>, TRUE, "")
               ELSE Run(<<>>, FALSE, parsed.exc)

-----------------------------------------------------------------------------
(***************************************************************************)
(* The crawl engine and the site.  The engine holds the submitted requests *)
(* and answers them one at a time, in any order, by running the request's  *)
(* callback on a response; the site chooses the body.  A request's id is   *)
(* its lineage: <<i>> for the seed of the i-th start URL, and id \o <<k>>  *)
(* for the k-th request yielded by the callback run on request id.         *)
(***************************************************************************)

\* Items of a list page: well-formed ones, and ones lacking a usable slug or URL.
ItemA == DictOf({"slug", "product_url"}, [slug |-> Str("a"), product_url |-> Str("u1")])
ItemB == DictOf({"slug", "product_url"}, [slug |-> Str("b"), product_url |-> Str("u2")])
ItemNoUrl == DictOf({"slug"}, [slug |-> Str("a")])
ItemEmptySlug == DictOf({"slug", "product_url"}, [slug |-> Str(""), product_url |-> Str("u1")])

ListItems == {ItemA, ItemB, ItemNoUrl, ItemEmptySlug}

RECURSIVE SeqsUpTo(_, _)
SeqsUpTo(S, n) ==
    IF n = 0 THEN {<<>>}
    ELSE SeqsUpTo(S, n - 1) \cup
         {Append(q, x) : q \in {q \in SeqsUpTo(S, n - 1) : Len(q) = n - 1}, x \in S}

\* d with key k set to v
With(d, k, v) == Dict(SetItem(d.d, k, v))

HasMore(flag) == DictOf({"meta"}, [meta |-> DictOf({"has_more_pages"}, [has_more_pages |-> Bool(flag)])])

\* List documents: every list of items with the flag true or false, and the
\* documents whose meta is absent, null or empty, with no item or one.
ListDocuments ==
    {With(HasMore(flag), "results", List(q)) :
        flag \in BOOLEAN, q \in SeqsUpTo(ListItems, MaxItems)}
    \cup {HasMore(TRUE), HasMore(FALSE)}
    \cup UNION { {m, With(m, "results", List(<<x>>))} :
                    m \in {EmptyDict, DictOf({"meta"}, [meta |-> None]),
                           DictOf({"meta"}, [meta |-> EmptyDict])},
                    x \in ListItems }

ListBodies == {NotJSON} \cup {JSON(doc) : doc \in ListDocuments}

\* A few of the list bodies: not JSON, no meta, and the flag either way over no
\* item, one item, and a skipped item before a valid one.
SampleListBodies ==
    {NotJSON, JSON(EmptyDict)}
    \cup {JSON(With(HasMore(flag), "results", List(q))) :
            flag \in BOOLEAN, q \in {<<>>, <<ItemA>>, <<ItemNoUrl, ItemB>>}}

DetailBodies ==
    { NotJSON,
      JSON(DictOf({"results"}, [results |-> None])),
      JSON(DictOf({"results"}, [results |-> DictOf({"uuid"}, [uuid |-> Str("r1")])])),
      JSON(DictOf({"results"}, [results |-> DictOf({"uuid"}, [uuid |-> Str("r2")])])) }

IsList(r) == r.request.callback = "parse_product_list"
IsDetail(r) == r.request.callback = "parse_product_detail"
CategoryOf(r) == r.request.meta["category_slug"]
PageOf(r) == r.request.meta["page"]

CategorySlugs == {CategorySlug(START_URLS[k]) : k \in 1..Len(START_URLS)}

\* the requests a callback run on request r yielded, with their ids
Spawned(r, run) ==
    {[id |-> Append(r.id, k), request |-> run.out[k]] : k \in 1..Len(run.out)}

\* issued, with the pages of the list requests among reqs appended
Issue(reqs) ==
    [c \in DOMAIN issued |->
        IF \E q \in reqs : IsList(q) /\ CategoryOf(q) = c
        THEN Append(issued[c], PageOf(CHOOSE q \in reqs : IsList(q) /\ CategoryOf(q) = c))
        ELSE issued[c]]

\* What the site said in a list body: the body is not JSON, its has_more_pages
\* flag is true, or the flag is false or absent.
SiteSaidMore(text) ==
    /\ text.json
    /\ "meta" \in DOMAIN text.data.d
    /\ text.data.d["meta"].t = "dict"
    /\ "has_more_pages" \in DOMAIN text.data.d["meta"].d
    /\ Truthy(text.data.d["meta"].d["has_more_pages"])

Answer(text) ==
    IF ~text.json THEN "malformed" ELSE IF SiteSaidMore(text) THEN "more" ELSE "last"

\* handled, with one more callback run on r
Count(r) == [h \in DOMAIN handled \cup {r} |->
                IF h = r THEN (IF r \in DOMAIN handled THEN handled[r] + 1 ELSE 1)
                ELSE handled[h]]

\* detail requests spawned so far
DetailCount == Cardinality({r \in submitted : IsDetail(r)})

NoRun == [id |-> <<>>, request |-> Request("", "", <<>>), text |-> NotJSON,
          run |-> Run(<<>>, FALSE, "")]

CrawlInit ==
    /\ started = FALSE
    /\ scheduled = {}
    /\ items = <<>>
    /\ log = {}
    /\ submitted = {}
    /\ issued = [c \in CategorySlugs |-> <<>>]
    /\ answers = [c \in CategorySlugs |-> <<>>]
    /\ handled = <<>>
    /\ last = NoRun

ParserIdle ==
    /\ product = EmptyDict
    /\ result = [op |-> "", out |-> Ok(None)]

Init == CrawlInit /\ ParserIdle

\* The engine consumes start_requests.
StartRequests ==
    /\ ~started
    /\ started' = TRUE
    /\ LET seeds == {[id |-> <<i>>, request |-> start_requests[i]] : i \in DOMAIN start_requests}
       IN /\ scheduled' = seeds
          /\ submitted' = seeds
          /\ issued' = Issue(seeds)
    /\ UNCHANGED <<items, log, answers, handled, last, product, result>>

\* The engine answers list request r with body text and runs parse_product_list.
\* The site reports more pages only below MaxPage, and the crawl meets at most
\* MaxDetail products.
ListResponse(r, text) ==
    \E run \in {parse_product_list(Response(r.request, text))} :
    \E new \in {Spawned(r, run)} :
       /\ SiteSaidMore(text) => PageOf(r) < MaxPage
       /\ DetailCount + Cardinality({q \in new : IsDetail(q)}) <= MaxDetail
       /\ scheduled' = (scheduled \ {r}) \cup new
       /\ submitted' = submitted \cup new
       /\ log' = IF run.logged THEN log \cup {r.id} ELSE log
       /\ issued' = Issue(new)
       /\ answers' = [answers EXCEPT ![CategoryOf(r)] = Append(@, Answer(text))]
       /\ handled' = Count(r)
       /\ last' = [id |-> r.id, request |-> r.request, text |-> text, run |-> run]
       /\ UNCHANGED <<started, items, product, result>>

\* The engine answers detail request r with body text at clock reading now and
\* runs parse_product_detail; what it yields goes to the feed.
DetailResponse(r, text, now) ==
    \E run \in {parse_product_detail(Response(r.request, text), now)} :
       /\ scheduled' = scheduled \ {r}
       /\ items' = items \o [k \in 1..Len(run.out) |-> [id |-> r.id, record |-> run.out[k]]]
       /\ log' = IF run.logged THEN log \cup {r.id} ELSE log
       /\ handled' = Count(r)
       /\ last' = [id |-> r.id, request |-> r.request, text |-> text, run |-> run]
       /\ UNCHANGED <<started, submitted, issued, answers, product, result>>

OnListResponseFrom(bodies) ==
    \E r \in {q \in scheduled : IsList(q)} : \E text \in bodies : ListResponse(r, text)

OnListResponse == OnListResponseFrom(ListBodies)

OnDetailResponse ==
    \E r \in {q \in scheduled : IsDetail(q)} : \E text \in DetailBodies :
        \E now \in 0..MaxTime : DetailResponse(r, text, now)

Next == StartRequests \/ OnListResponse \/ OnDetailResponse

Spec == Init /\ [][Next]_vars

\* The crawl over the sample list bodies, with an engine that keeps answering
\* while a request is outstanding.
OnSampleListResponse == OnListResponseFrom(SampleListBodies)

LiveNext == StartRequests \/ OnSampleListResponse \/ OnDetailResponse

LiveSpec == Init /\ [][LiveNext]_vars /\ WF_vars(LiveNext)

-----------------------------------------------------------------------------
(***************************************************************************)
(* The extractors on their own: a raw product object is drawn from the     *)
(* families below (each varies the fields one extractor reads, absent,     *)
(* null or filled) and any extractor is applied to it.                     *)
(***************************************************************************)

\* The dicts over keys whose value at k is absent or one of values[k].
RECURSIVE Objects(_, _)
Objects(keys, values) ==
    IF keys = {} THEN {EmptyDict}
    ELSE LET key == CHOOSE k \in keys : TRUE
             rest == Objects(keys \ {key}, values)
         IN rest \cup {With(d, key, v) : d \in rest, v \in values[key]}

PriceValues ==
    {None, Str("abc"), Str("2"), List(<<>>)} \cup {Num(n) : n \in 0..MaxPrice}

PriceProducts ==
    Objects({"price", "prev_price"}, [price |-> PriceValues, prev_price |-> PriceValues])

Label(filter, title) == DictOf({"filter", "title"}, [filter |-> Str(filter), title |-> Str(title)])

FilterLabels ==
    { Label("volume", "1L"), Label("volume", "2L"), Label("volume", ""),
      Label("__description", "1L"), Label("article", "1L"),
      DictOf({"title"}, [title |-> Str("1L")]),
      DictOf({"filter"}, [filter |-> Str("volume")]),
      None }

LabelLists == {None} \cup {List(q) : q \in SeqsUpTo(FilterLabels, MaxList)}

TitleProducts ==
    Objects({"name", "filter_labels"},
            [name |-> {None, Str("Vodka")}, filter_labels |-> LabelLists])

TextBlocks ==
    { None, List(<<>>), List(<<None>>), List(<<EmptyDict>>),
      List(<<DictOf({"content"}, [content |-> Str("text")])>>),
      List(<<DictOf({"content"}, [content |-> Str("text")]),
             DictOf({"content"}, [content |-> Str("more")])>>) }

MetaProducts ==
    Objects({"text_blocks", "vendor_code", "filter_labels"},
            [text_blocks |-> TextBlocks,
             vendor_code |-> {None, Str(""), Str("A1")},
             filter_labels |-> LabelLists])

Named(name) == DictOf({"name"}, [name |-> Str(name)])

Categories ==
    { None, EmptyDict, Named("Vodka"),
      With(Named("Vodka"), "parent", None),
      With(Named("Vodka"), "parent", EmptyDict),
      With(Named("Vodka"), "parent", Named("Spirits")),
      DictOf({"parent"}, [parent |-> Named("Spirits")]) }

SectionProducts == Objects({"category"}, [category |-> Categories])

StockProducts ==
    Objects({"quantity_total"},
            [quantity_total |-> {None, Num(0), Num(3), Str("3"), Str("abc")}])

Block(code, values) == DictOf({"code", "values"}, [code |-> Str(code), values |-> values])

DescriptionBlocks ==
    { Block("brend", List(<<Named("B1")>>)), Block("brend", List(<<Named("B2"), Named("B1")>>)),
      Block("brend", List(<<>>)), Block("brend", List(<<EmptyDict>>)),
      Block("brend", List(<<None>>)), Block("brend", Named("B1")),
      Block("brend", None), Block("strana", List(<<Named("B3")>>)),
      DictOf({"code"}, [code |-> Str("brend")]), None }

BrandProducts ==
    Objects({"description_blocks"},
            [description_blocks |->
                {None} \cup {List(q) : q \in SeqsUpTo(DescriptionBlocks, MaxList)}])

FlagProducts ==
    Objects({"new", "gift_package", "uuid", "image_url"},
            [new |-> {None, Bool(TRUE), Bool(FALSE)},
             gift_package |-> {None, Bool(TRUE), Bool(FALSE)},
             uuid |-> {None, Str("r1")},
             image_url |-> {Str("img")}])

Products ==
    PriceProducts \cup TitleProducts \cup MetaProducts \cup SectionProducts
    \cup StockProducts \cup BrandProducts \cup FlagProducts

ParserInit ==
    /\ CrawlInit
    /\ product \in Products
    /\ result = [op |-> "", out |-> Ok(None)]

Apply(op, out) ==
    /\ result.op = ""
    /\ result' = [op |-> op, out |-> out]
    /\ UNCHANGED <<crawlVars, product>>

BuildTitle == Apply("build_title", build_title(product))
GetMarketingTags == Apply("get_marketing_tags", get_marketing_tags(product))
GetBrand == Apply("get_brand", get_brand(product))
GetSection == Apply("get_section", get_section(product))
GetPriceData == Apply("get_price_data", get_price_data(product))
GetStock == Apply("get_stock", get_stock(product))
GetAssets == Apply("get_assets", get_assets(product))
GetMetadata == Apply("get_metadata", get_metadata(product))

\* the detail request of a list item with slug "a" and product_url "u1"
SampleDetailRequest ==
    Request(ProductDetailAPIBuilder_build_url("a"), "parse_product_detail",
            [product_url |-> Str("u1")])

\* parse_product_detail on the detail response {"results": product}
ParseProductDetail ==
    \E now \in 0..MaxTime :
        Apply("parse_product_detail",
              parse_product_detail(
                  Response(SampleDetailRequest,
                           JSON(DictOf({"results"}, [results |-> product]))), now))

ParserNext ==
    \/ BuildTitle \/ GetMarketingTags \/ GetBrand \/ GetSection \/ GetPriceData
    \/ GetStock \/ GetAssets \/ GetMetadata \/ ParseProductDetail

ParserSpec == ParserInit /\ [][ParserNext]_vars

-----------------------------------------------------------------------------
(* Properties of the extractors, checked under ParserSpec *)

Has(p, k) == k \in DOMAIN p.d
IsNum(p, k) == Has(p, k) /\ p.d[k].t = "num"
Missing(p, k) == ~Has(p, k) \/ p.d[k].t = "none"

\* price and prev_price are each a number, null or absent
PlainPrices(p) ==
    /\ IsNum(p, "price") \/ Missing(p, "price")
    /\ IsNum(p, "prev_price") \/ Missing(p, "prev_price")

\* the price, 0 when absent; the previous price, the price when absent
SourceCurrent(p) == IF IsNum(p, "price") THEN p.d["price"].i ELSE 0
SourceOriginal(p) == IF IsNum(p, "prev_price") THEN p.d["prev_price"].i ELSE SourceCurrent(p)

PriceApplied == result.op = "get_price_data"

\* C5: every extractor returns a value for every product object, null fields
\* included, and parse_product_detail never ends with an uncaught exception: it
\* yields exactly one record, or logs and yields none.
C5_ExtractorsTotal ==
    /\ result.op \in {"build_title", "get_marketing_tags", "get_brand", "get_section",
                      "get_price_data", "get_stock", "get_assets", "get_metadata"}
          => result.out.ok
    /\ result.op = "parse_product_detail"
          => /\ result.out.exc = ""
             /\ \/ Len(result.out.out) = 1 /\ ~result.out.logged
                \/ Len(result.out.out) = 0 /\ result.out.logged

\* C6: get_price_data reports a sale tag and the source's previous price exactly
\* when previous price > price > 0; otherwise the tag is empty and the reported
\* original is the reported current; so original >= current always.
C6_DiscountIff ==
    PriceApplied =>
        /\ result.out.ok
        /\ LET r == result.out.val
               cur == SourceCurrent(product)
               orig == SourceOriginal(product)
           IN /\ PlainPrices(product) =>
                    /\ r.current = cur
                    /\ (r.sale_tag /= "") <=> (orig > cur /\ cur > 0)
                    /\ r.sale_tag /= "" => r.original = orig
              /\ r.sale_tag = "" => r.original = r.current
              /\ r.sale_tag /= "" => r.original > r.current /\ r.current > 0
              /\ r.original >= r.current

\* a discount was applied to a price below the previous price
C6_Witness ==
    /\ PriceApplied
    /\ IsNum(product, "price") /\ IsNum(product, "prev_price")
    /\ product.d["prev_price"].i > product.d["price"].i /\ product.d["price"].i > 0
    /\ result.out.val.sale_tag /= ""
    /\ result.out.val.original = product.d["prev_price"].i

\* C9: when a discount applies, the sale tag carries the exact percentage
\* truncated toward zero, ((original - current) * 100) \div original, which lies
\* in 0..99.
C9_ExactPercent ==
    (PriceApplied /\ PlainPrices(product)
        /\ SourceOriginal(product) > SourceCurrent(product) /\ SourceCurrent(product) > 0)
    => LET percent == ((SourceOriginal(product) - SourceCurrent(product)) * 100)
                          \div SourceOriginal(product)
       IN /\ percent \in 0..99
          /\ result.out.val.sale_tag = SALE_WORD \o ToString(percent) \o "%"

\* the content of the first text block, "" when there is none
SourceDescription(p) ==
    IF Has(p, "text_blocks") /\ Truthy(p.d["text_blocks"])
    THEN IF Has(p.d["text_blocks"].l[1], "content")
         THEN p.d["text_blocks"].l[1].d["content"] ELSE Str("")
    ELSE Str("")

\* C7: the map get_metadata returns always has "__description", equal to the
\* content of the first text block, and has "article" only if vendor_code is
\* present and truthy, whatever the filter labels are.
C7_ReservedKeys ==
    (result.op = "get_metadata" /\ result.out.ok) =>
        /\ "__description" \in DOMAIN result.out.val
        /\ result.out.val["__description"] = SourceDescription(product)
        /\ "article" \in DOMAIN result.out.val
              => Has(product, "vendor_code") /\ Truthy(product.d["vendor_code"])

-----------------------------------------------------------------------------
(* Properties of the crawl, checked under Spec and LiveSpec *)

ListRun == last.request.callback = "parse_product_list"
DetailRun == last.request.callback = "parse_product_detail"

ListRequestsOf(c) == {r \in scheduled : IsList(r) /\ CategoryOf(r) = c}

\* what a run yielded: a request for one of the callbacks, or a record
IsRequest(q) == "callback" \in DOMAIN q
IsListRequest(q) == IsRequest(q) /\ q.callback = "parse_product_list"
IsDetailRequest(q) == IsRequest(q) /\ q.callback = "parse_product_detail"

\* C1: once a list page of a category has answered with has_more_pages false or
\* absent, the run on it yields no list request and no higher page of that
\* category is ever requested, whatever else is in flight.
C1_PaginationEnds ==
    /\ (ListRun /\ Answer(last.text) = "last")
          => \A k \in 1..Len(last.run.out) : ~IsListRequest(last.run.out[k])
    /\ \A c \in CategorySlugs : \A k \in 1..Len(answers[c]) :
          answers[c][k] = "last"
             => /\ \A j \in 1..Len(issued[c]) : issued[c][j] <= k
                /\ ListRequestsOf(c) = {}

\* a category ended at its second page while another request is still in flight
C1_Witness ==
    \E c \in CategorySlugs :
        /\ answers[c] = <<"more", "last">>
        /\ issued[c] = <<1, 2>>
        /\ \E r \in scheduled : IsDetail(r)
        /\ \E d \in CategorySlugs \ {c} : ListRequestsOf(d) /= {}

\* C2: the pages requested for a category are 1, 2, ..., k in order; page N+1 is
\* yielded only by the run on page N of the same category, only when that page
\* said has_more_pages, with the same category_slug and page N+1; at most one
\* list request per category is outstanding.
C2_PagesInOrder ==
    /\ \A c \in CategorySlugs :
          /\ \A j \in 1..Len(issued[c]) : issued[c][j] = j
          /\ Cardinality(ListRequestsOf(c)) <= 1
          /\ \A r \in ListRequestsOf(c) :
                /\ PageOf(r) = Len(issued[c])
                /\ Len(answers[c]) = PageOf(r) - 1
                /\ \A j \in 1..Len(answers[c]) : answers[c][j] = "more"
    /\ \A k \in 1..Len(last.run.out) :
          IsListRequest(last.run.out[k])
             => /\ ListRun
                /\ Answer(last.text) = "more"
                /\ last.run.out[k].meta =
                      [category_slug |-> last.request.meta["category_slug"],
                       page |-> last.request.meta["page"] + 1]
                /\ last.run.out[k].url =
                      ProductListAPIBuilder_build_url(last.request.meta["category_slug"],
                                                      last.request.meta["page"] + 1, PER_PAGE)
                /\ \A j \in 1..Len(last.run.out) : IsListRequest(last.run.out[j]) => j = k

\* the run on page 1 of a category has just yielded its page 2
C2_Witness ==
    /\ ListRun
    /\ last.request.meta["page"] = 1
    /\ \E r \in scheduled :
          /\ IsList(r) /\ PageOf(r) = 2 /\ CategoryOf(r) = last.request.meta["category_slug"]
          /\ r.id = Append(last.id, Len(last.run.out))
    /\ \A c \in CategorySlugs : ListRequestsOf(c) /= {}

\* an item with a non-empty slug and a non-empty product_url
ValidItem(item) ==
    /\ "slug" \in DOMAIN item.d /\ item.d["slug"].t = "str" /\ item.d["slug"].s /= ""
    /\ "product_url" \in DOMAIN item.d /\ item.d["product_url"].t = "str"
    /\ item.d["product_url"].s /= ""

\* the items of a list document
ItemsOf(text) ==
    IF text.json /\ "results" \in DOMAIN text.data.d THEN text.data.d["results"].l ELSE <<>>

\* C3: the run on a parsed list page yields exactly one detail request per item
\* that has a non-empty slug and a non-empty product_url, in item order, each
\* carrying its item's product_url, and none for the other items; skipping an
\* item logs nothing.
C3_OneDetailPerValidItem ==
    (ListRun /\ last.text.json) =>
        LET valid == SelectSeq(ItemsOf(last.text), ValidItem)
            details == SelectSeq(last.run.out, IsDetailRequest)
        IN /\ Len(details) = Len(valid)
           /\ \A k \in 1..Len(valid) :
                 /\ details[k].meta = [product_url |-> valid[k].d["product_url"]]
                 /\ details[k].url = ProductDetailAPIBuilder_build_url(valid[k].d["slug"].s)
                 /\ [id |-> Append(last.id, k), request |-> details[k]] \in submitted
           /\ ~last.run.logged
           /\ last.id \notin log

\* a page with a skipped item and a valid item has spawned one detail request
C3_Witness ==
    /\ ListRun /\ last.text.json
    /\ Len(ItemsOf(last.text)) = 2
    /\ ~ValidItem(ItemsOf(last.text)[1]) /\ ValidItem(ItemsOf(last.text)[2])
    /\ Len(SelectSeq(last.run.out, IsDetailRequest)) = 1
    /\ \E r \in scheduled : IsDetail(r) /\ r.id = Append(last.id, 1)

\* C4: a body that is not JSON is dropped where it arrives: the run logs, yields
\* nothing (no detail request, no next page, no retry, no record) and ends
\* without an exception; the step removes that one request and leaves every
\* other in-flight request, and the feed, as they were.
C4_MalformedDropped ==
    /\ [](~last.text.json /\ last.id /= <<>>
            => /\ last.run = Run(<<>>, TRUE, "")
               /\ last.id \in log)
    /\ [][(handled' /= handled /\ ~last'.text.json)
            => /\ scheduled' = scheduled \ {[id |-> last'.id, request |-> last'.request]}
               /\ [id |-> last'.id, request |-> last'.request] \in scheduled
               /\ items' = items
               /\ submitted' = submitted
               /\ log' = log \cup {last'.id}]_vars

\* a malformed list page and a malformed detail page were dropped, a record was
\* emitted, and a request is still in flight
C4_Witness ==
    /\ \E i \in log : Len(i) = 1
    /\ \E r \in DOMAIN handled : IsDetail(r) /\ r.id \in log
    /\ Len(items) >= 1
    /\ scheduled /= {}
    /\ ~last.text.json

\* the uuid of a detail document, "" when it has none
UuidOf(text) ==
    IF "results" \in DOMAIN text.data.d /\ "uuid" \in DOMAIN text.data.d["results"].d
    THEN text.data.d["results"].d["uuid"] ELSE Str("")

\* C8: every record of the feed comes from one detail response and its own
\* request: its url is the product_url the request carries (not the API URL), its
\* RPC the uuid of that response; a detail run yields at most one record, and a
\* record once emitted never changes.
C8_RecordFromOwnResponse ==
    /\ [](/\ \A i \in 1..Len(items) :
                /\ \E r \in DOMAIN handled :
                      /\ IsDetail(r) /\ r.id = items[i].id
                      /\ items[i].record.url = r.request.meta["product_url"]
                      /\ items[i].record.url /= Str(r.request.url)
                /\ \A j \in 1..Len(items) : items[j].id = items[i].id => j = i
          /\ Len(last.run.out) <= 1 \/ ListRun
          /\ (DetailRun /\ Len(last.run.out) = 1)
                => /\ items[Len(items)] = [id |-> last.id, record |-> last.run.out[1]]
                   /\ last.run.out[1].RPC = UuidOf(last.text)
                   /\ last.run.out[1].url = last.request.meta["product_url"])
    /\ [][\/ items' = items
          \/ /\ Len(items') = Len(items) + 1
             /\ SubSeq(items', 1, Len(items)) = items
             /\ last'.request.callback = "parse_product_detail"]_vars

\* two records from different categories, emitted against spawn order, with
\* different urls and RPCs
C8_Witness ==
    /\ Len(items) = 2
    /\ items[1].id[1] = 2 /\ items[2].id[1] = 1
    /\ items[1].record.url /= items[2].record.url
    /\ items[1].record.RPC /= items[2].record.RPC

Quiescent ==
    /\ started
    /\ scheduled = {}
    /\ \A r \in submitted : r \in DOMAIN handled /\ handled[r] = 1

\* C10: when every category stops reporting more pages at some page and the
\* engine answers every request, the crawl reaches a state with nothing
\* outstanding in which every request spawned was processed exactly once; and a
\* category whose every page so far reported more pages has exactly one list
\* request outstanding, for the next page.
C10_Terminates ==
    /\ <>Quiescent
    /\ [](started =>
            \A c \in CategorySlugs :
                (\A k \in 1..Len(answers[c]) : answers[c][k] = "more")
                   => \E r \in scheduled :
                         /\ ListRequestsOf(c) = {r}
                         /\ PageOf(r) = Len(answers[c]) + 1)
    /\ [](\A r \in DOMAIN handled : handled[r] = 1 /\ r \in submitted /\ r \notin scheduled)

\* the crawl has ended with two records in the feed and both categories paged
C10_Witness ==
    /\ Quiescent
    /\ Len(items) = 2
    /\ \A c \in CategorySlugs : Len(answers[c]) = 2

=============================================================================
